---- MODULE Spec2Model ----
(***************************************************************************)
(* The card game "100" of app/game.py: Game (stock, wastepile, count,      *)
(* players, direction, current_player, rules) and Player (hand and the     *)
(* four sip/drink counters), with the operations add_player, pick_card,    *)
(* shuffle_cards and play_card (which runs Game.move, next_player and      *)
(* game_over).                                                             *)
(*                                                                         *)
(* Cards are the objects of the list handed to Game(): card i is the i-th  *)
(* object of that list, so two cards are the same only if they are the     *)
(* same object (Card defines no __eq__).  Players are the Player objects   *)
(* 1..MaxPlayers; player_id is the object's number.                        *)
(***************************************************************************)
EXTENDS Integers, Sequences, FiniteSets, TLC

\* ---------------------------------------------------------------- bounds
DeckSize   == 8      \* cards in the list handed to Game()
MaxPlayers == 2      \* Player objects that may join
MaxCut     == 1      \* random.shuffle: the orders explored are the cuts of
                     \* the list by up to this many cards
MaxWaste   == 5      \* cards are played while the wastepile holds fewer than this
MaxDecks   == 2      \* get_deck is called with up to this many decks
TenDecks   == 3      \* decks whose Tens make the stock of the game of Tens

\* ------------------------------------------------------ program constants
ACE   == 1
NINE  == 9
TEN   == 10
JACK  == 11
QUEEN == 12
KING  == 13
n_cards == 4
JackCount == 96
Limit == 100

None == 0            \* Python's None for current_player

PlayerIds == 1..MaxPlayers
Cards     == 1..DeckSize

\* The ranks of the cards of the deck handed to Game(), in list order.
DeckRanks == <<11, 3, 1, 4, 13, 10, 12, 8, 2, 5, 6, 7, 9>>
Rank(c) == DeckRanks[((c - 1) % Len(DeckRanks)) + 1]
Deck == [i \in 1..DeckSize |-> i]

VARIABLES
    rules,            \* [play_blind, auto_shuffle]: rules.get(key, False)
    stock,            \* sequence of cards, front = next draw
    wastepile,        \* the cards of the wastepile, last = most recent
    wastepile_shape,  \* "list", or "card" once line 76 stored a bare Card
    count,
    direction,
    players,          \* sequence of player ids, in join order
    current_player,   \* a player id, or None
    hand,             \* hand[p]: sequence of cards
    sips_taken, sips_given, drinks_taken, drinks_given,
    last,             \* the operation just run, its inputs and its outcome
    gd                \* the frame of get_deck: its argument, loop position and deck

counters == <<sips_taken, sips_given, drinks_taken, drinks_given>>
vars == <<rules, stock, wastepile, wastepile_shape, count, direction, players,
          current_player, hand, sips_taken, sips_given, drinks_taken,
          drinks_given, last, gd>>
\* the fields of the Game and of its Players, which get_deck does not touch
game_vars == <<rules, stock, wastepile, wastepile_shape, count, direction, players,
               current_player, hand, counters, last>>

\* ---------------------------------------------------------------- helpers
Range(s) == {s[i] : i \in 1..Len(s)}
Last(s) == s[Len(s)]
AllButLast(s) == SubSeq(s, 1, Len(s) - 1)                \* s[:-1]
Index(s, x) == CHOOSE i \in 1..Len(s) : s[i] = x /\ \A j \in 1..(i-1) : s[j] # x
Remove(s, x) ==                                          \* list.remove(x)
    LET i == Index(s, x) IN SubSeq(s, 1, i - 1) \o SubSeq(s, i + 1, Len(s))
Rotate(s, k) == SubSeq(s, k + 1, Len(s)) \o SubSeq(s, 1, k)

\* random.shuffle(s): the orders of s the model explores (for a list of two
\* cards, both).
Shuffle(s) == {Rotate(s, k) : k \in {j \in 0..MaxCut : j < Len(s) \/ j = 0}}

\* The record of an operation: the acting player, the card played and the
\* value pick_value returned, the result or exception, the count when the
\* operation began and when the card's effect was applied (before game_over),
\* and whether the operation ran shuffle_cards.
Op(op, p, c, v, status, before, played, shuffled) ==
    [op |-> op, player |-> p, card |-> c, value |-> v, status |-> status,
     count_before |-> before, count_played |-> played, shuffled |-> shuffled]

\* --------------------------------------------------------------- get_deck
\* range(1, 13) for range(1, 14).
RANKS_short == [i \in 1..12 |-> i]

\* line 17
RANKS == [i \in 1..13 |-> i]

\* line 16
SUITS == {"hearts", "diamonds", "clubs", "spades"}

\* line 202
suits == <<"spades", "hearts", "diamonds", "clubs">>

\* Card(rank=rank, suit=suit), lines 23-27; the assertions hold for every
\* rank of RANKS and every suit of suits.
NewCard(rank, suit) == [rank |-> rank, suit |-> suit]

\* get_deck is not running.
NoCall == [pc |-> "idle", n_decks |-> 0, copy |-> 0, suit |-> 0, rank |-> 0, deck |-> <<>>]

\* get_deck(n), lines 200-203, up to the first append.
GetDeckCall(n) ==
    /\ gd.pc = "idle"
    /\ gd' = IF n = 0 \/ Len(suits) = 0 \/ Len(RANKS) = 0
             THEN [NoCall EXCEPT !.pc = "done", !.n_decks = n]
             ELSE [pc |-> "loop", n_decks |-> n, copy |-> 0, suit |-> 1, rank |-> 1,
                   deck |-> <<>>]
    /\ UNCHANGED game_vars

\* One pass of the innermost loop body, line 207, and the loops' advance,
\* lines 204-206; the return of line 208 when the loops end.
GetDeckAppend ==
    /\ gd.pc = "loop"
    /\ LET d == Append(gd.deck, NewCard(RANKS[gd.rank], suits[gd.suit])) IN
       gd' = IF gd.rank < Len(RANKS)
             THEN [gd EXCEPT !.deck = d, !.rank = @ + 1]
             ELSE IF gd.suit < Len(suits)
             THEN [gd EXCEPT !.deck = d, !.rank = 1, !.suit = @ + 1]
             ELSE IF gd.copy + 1 < gd.n_decks
             THEN [gd EXCEPT !.deck = d, !.rank = 1, !.suit = 1, !.copy = @ + 1]
             ELSE [gd EXCEPT !.deck = d, !.pc = "done"]
    /\ UNCHANGED game_vars

\* ------------------------------------------------------------------- Init
\* Game(stock=deck, rules=rules) as cli() builds it, lines 111-123.
Init ==
    /\ rules \in [play_blind : BOOLEAN, auto_shuffle : BOOLEAN]
    /\ stock \in Shuffle(Deck)
    /\ wastepile = <<>>
    /\ wastepile_shape = "list"
    /\ count = 0
    /\ direction = 1
    /\ players = <<>>
    /\ current_player = None
    /\ hand = [p \in PlayerIds |-> <<>>]
    /\ sips_taken = [p \in PlayerIds |-> 0]
    /\ sips_given = [p \in PlayerIds |-> 0]
    /\ drinks_taken = [p \in PlayerIds |-> 0]
    /\ drinks_given = [p \in PlayerIds |-> 0]
    /\ last = Op("init", None, 0, 0, "ok", 0, 0, FALSE)
    /\ gd = NoCall

\* --------------------------------------------------- Player.shuffle_cards
\* shuffle_cards moving the whole wastepile into the stock (wastepile[:] for
\* wastepile[:-1]).
ShuffleCardsOutcomes_all(stk, wp, shape) ==
    IF shape = "card"
    THEN {[status |-> "TypeError", stock |-> stk, wastepile |-> wp, shape |-> shape]}
    ELSE IF wp = <<>>
    THEN {[status |-> "IndexError", stock |-> stk, wastepile |-> wp, shape |-> shape]}
    ELSE {[status |-> "ok", stock |-> s, wastepile |-> <<Last(wp)>>, shape |-> "card"] :
             s \in Shuffle(stk \o wp)}

\* The outcomes of shuffle_cards on (stk, wp, shape), lines 72-77.
ShuffleCardsOutcomes(stk, wp, shape) ==
    IF shape = "card"
    THEN \* line 75: a Card cannot be sliced
         {[status |-> "TypeError", stock |-> stk, wastepile |-> wp, shape |-> shape]}
    ELSE IF wp = <<>>
    THEN \* line 76: [][-1]
         {[status |-> "IndexError", stock |-> stk, wastepile |-> wp, shape |-> shape]}
    ELSE {[status |-> "ok", stock |-> s, wastepile |-> <<Last(wp)>>, shape |-> "card"] :
             s \in Shuffle(stk \o AllButLast(wp))}

\* ------------------------------------------------------- Player.pick_card
\* Draw with the card taken from the back of the stock (pop() for pop(0)).
Draw_back(st, h) ==
    IF st.stock = <<>>
    THEN [status |-> "IndexError", stock |-> st.stock, wastepile |-> st.wastepile,
          shape |-> st.shape, hand |-> h]
    ELSE [status |-> "ok", stock |-> AllButLast(st.stock), wastepile |-> st.wastepile,
          shape |-> st.shape, hand |-> Append(h, Last(st.stock))]

\* lines 68-70: pop the front of the stock into the hand.
Draw(st, h) ==
    IF st.stock = <<>>
    THEN [status |-> "IndexError", stock |-> st.stock, wastepile |-> st.wastepile,
          shape |-> st.shape, hand |-> h]
    ELSE [status |-> "ok", stock |-> Tail(st.stock), wastepile |-> st.wastepile,
          shape |-> st.shape, hand |-> Append(h, Head(st.stock))]

AutoShuffle == rules.auto_shuffle

\* The outcomes of pick_card on (stk, wp, shape) for a hand h, lines 58-70.
PickCardOutcomes(stk, wp, shape, h) ==
    LET st == [stock |-> stk, wastepile |-> wp, shape |-> shape] IN
    IF stk = <<>>
    THEN IF AutoShuffle
         THEN {IF s.status = "ok" THEN Draw(s, h)
               ELSE [status |-> s.status, stock |-> s.stock, wastepile |-> s.wastepile,
                     shape |-> s.shape, hand |-> h] :
                  s \in ShuffleCardsOutcomes(stk, wp, shape)}
         ELSE {[status |-> "NotEnoughCards", stock |-> stk, wastepile |-> wp,
                shape |-> shape, hand |-> h]}
    ELSE {Draw(st, h)}

\* -------------------------------------------------------- Game.add_player
\* n successive pick_card calls of lines 133-134 (their results are ignored).
RECURSIVE DealOutcomes(_, _)
DealOutcomes(n, r) ==
    IF n = 0 THEN {r}
    ELSE UNION {DealOutcomes(n - 1, r2) :
                   r2 \in PickCardOutcomes(r.stock, r.wastepile, r.shape, r.hand)}

\* The stock test as "if not self.stock".
TooFewCards_empty(stk) == stk = <<>>

\* line 131: the stock cannot serve the deal
TooFewCards(stk) == ~(Len(stk) >= n_cards)

\* current_player set to every joining player.
FirstPlayer_always(cp, p) == p

\* lines 137-138
FirstPlayer(cp, p) == IF cp = None THEN p ELSE cp

\* add_player(p), lines 125-139; the joining Player object is a new one, as
\* in cli(), lines 237-239.
AddPlayer(p) ==
    /\ p = Len(players) + 1
    /\ IF TooFewCards(stock)
       THEN /\ last' = Op("add_player", p, 0, 0, "NotEnoughCards", count, count, FALSE)
            /\ UNCHANGED <<stock, wastepile, wastepile_shape, hand, players, current_player>>
       ELSE \E r \in DealOutcomes(n_cards, [status |-> "ok", stock |-> stock,
                                            wastepile |-> wastepile,
                                            shape |-> wastepile_shape,
                                            hand |-> hand[p]]) :
               /\ stock' = r.stock
               /\ wastepile' = r.wastepile
               /\ wastepile_shape' = r.shape
               /\ hand' = [hand EXCEPT ![p] = r.hand]
               /\ players' = Append(players, p)
               /\ current_player' = FirstPlayer(current_player, p)
               /\ last' = Op("add_player", p, 0, 0, "ok", count, count, FALSE)
    /\ UNCHANGED <<rules, count, direction, counters, gd>>

\* ------------------------------------------------------- Game.next_player
\* The index clamped at 0 instead of wrapped.
NextIndex_clamped(idx, d, n) == IF idx + d < 0 THEN 0 ELSE (idx + d) % n

\* lines 174-177, on 0-based indices as in the code; % is Python's modulo.
NextIndex(idx, d, n) == (idx + d) % n

NextPlayer(cp, d) == players[NextIndex(Index(players, cp) - 1, d, Len(players)) + 1]

\* --------------------------------------------------------- Game.game_over
\* A drink handed out for any overshoot.
DrinksHandedOut_any(c) == IF c - Limit > 0 THEN 1 ELSE 0

\* lines 182-185: the drinks the loser hands out at count c
DrinksHandedOut(c) ==
    LET overshot == c - Limit IN
    IF overshot > 0 /\ overshot % 10 = 0 THEN overshot \div 10 ELSE 0

\* -------------------------------------------------------------- Game.move
PlayBlind == rules.play_blind

\* No turn check.
WrongPlayer_never(p) == FALSE

\* line 146
WrongPlayer(p) == current_player # p

\* The Jack counted as eleven.
RankEffect_additiveJack(c, rank, value) ==
    IF rank = ACE THEN c + value
    ELSE IF rank <= NINE THEN c + rank
    ELSE IF rank = TEN THEN c + value
    ELSE IF rank = JACK THEN c + JACK
    ELSE IF rank = QUEEN THEN c
    ELSE c

\* lines 152-163: the count after the card's effect
RankEffect(c, rank, value) ==
    IF rank = ACE THEN c + value
    ELSE IF rank <= NINE THEN c + rank
    ELSE IF rank = TEN THEN c + value
    ELSE IF rank = JACK THEN JackCount
    ELSE IF rank = QUEEN THEN c
    ELSE c

\* lines 149-163
CountAfterCard(c, rank, value) ==
    IF PlayBlind THEN c ELSE RankEffect(c, rank, value)

\* The King test left out.
DirectionAfterCard_never(d, rank) == d

\* lines 164-165
DirectionAfterCard(d, rank) ==
    IF rank = KING THEN (IF d = 1 THEN -1 ELSE 1) ELSE d

\* The round ending only above the limit.
IsGameOver_strict(c) == c > Limit

\* line 166
IsGameOver(c) == c >= Limit

\* what pick_value may return for the card (lines 153, 158); 0 when it is
\* not called
ValueOptions(card) ==
    IF PlayBlind THEN {0}
    ELSE IF Rank(card) = ACE THEN {1, 11}
    ELSE IF Rank(card) = TEN THEN {-10, 10}
    ELSE {0}

\* move with next_player called after game_over as well.
Move_advance(p, card, value) ==
    LET same == [status |-> "WrongPlayer", wastepile |-> wastepile,
                 count_played |-> count, count |-> count, direction |-> direction,
                 current_player |-> current_player,
                 drinks_taken |-> drinks_taken, drinks_given |-> drinks_given]
        played == CountAfterCard(count, Rank(card), value)
        dir    == DirectionAfterCard(direction, Rank(card))
    IN  IF WrongPlayer(p) THEN same
        ELSE IF wastepile_shape = "card"
        THEN [same EXCEPT !.status = "AttributeError"]
        ELSE IF IsGameOver(played)
        THEN [status |-> "ok", wastepile |-> Append(wastepile, card),
              count_played |-> played, count |-> 0, direction |-> dir,
              current_player |-> NextPlayer(current_player, dir),
              drinks_taken |-> [drinks_taken EXCEPT ![p] = @ + 1],
              drinks_given |-> [drinks_given EXCEPT ![p] = @ + DrinksHandedOut(played)]]
        ELSE [status |-> "ok", wastepile |-> Append(wastepile, card),
              count_played |-> played, count |-> played, direction |-> dir,
              current_player |-> NextPlayer(current_player, dir),
              drinks_taken |-> drinks_taken, drinks_given |-> drinks_given]

\* move(player=p, card=card) with pick_value returning value, lines 141-170:
\* its result and the game it leaves.
Move(p, card, value) ==
    LET same == [status |-> "WrongPlayer", wastepile |-> wastepile,
                 count_played |-> count, count |-> count, direction |-> direction,
                 current_player |-> current_player,
                 drinks_taken |-> drinks_taken, drinks_given |-> drinks_given]
        played == CountAfterCard(count, Rank(card), value)
        dir    == DirectionAfterCard(direction, Rank(card))
    IN  IF WrongPlayer(p) THEN same
        ELSE IF wastepile_shape = "card"
        THEN [same EXCEPT !.status = "AttributeError"]   \* line 148: Card.append
        ELSE IF IsGameOver(played)
        THEN [status |-> "ok", wastepile |-> Append(wastepile, card),
              count_played |-> played, count |-> 0, direction |-> dir,
              current_player |-> current_player,
              drinks_taken |-> [drinks_taken EXCEPT ![p] = @ + 1],
              drinks_given |-> [drinks_given EXCEPT ![p] = @ + DrinksHandedOut(played)]]
        ELSE [status |-> "ok", wastepile |-> Append(wastepile, card),
              count_played |-> played, count |-> played, direction |-> dir,
              current_player |-> NextPlayer(current_player, dir),
              drinks_taken |-> drinks_taken, drinks_given |-> drinks_given]

\* -------------------------------------------------------- Player.play_card
\* The two sip branches exchanged.
Sip_swapped(c) ==
    IF c # 0 /\ c % 10 = 0 THEN "take"
    ELSE IF c # 0 /\ c % 11 = 0 THEN "give"
    ELSE "none"

\* lines 50-54: the sip the count c brings the player
Sip(c) ==
    IF c # 0 /\ c % 10 = 0 THEN "give"
    ELSE IF c # 0 /\ c % 11 = 0 THEN "take"
    ELSE "none"

\* line 49
Discard(wp, card) == Append(wp, card)

\* play_card(card, game) by player p, lines 45-56; the card is one of p's hand
\* (cli(), lines 246-252).
PlayCardCall(p, card, value) ==
    /\ p \in Range(players)
    /\ card \in Range(hand[p])
    /\ value \in ValueOptions(card)
    /\ LET m == Move(p, card, value) IN
         /\ wastepile' = IF m.status = "ok" THEN Discard(m.wastepile, card) ELSE m.wastepile
         /\ count' = m.count
         /\ direction' = m.direction
         /\ current_player' = m.current_player
         /\ drinks_taken' = m.drinks_taken
         /\ drinks_given' = m.drinks_given
         /\ hand' = IF m.status = "ok" THEN [hand EXCEPT ![p] = Remove(@, card)] ELSE hand
         /\ sips_given' = IF m.status = "ok" /\ Sip(m.count) = "give"
                          THEN [sips_given EXCEPT ![p] = @ + 1] ELSE sips_given
         /\ sips_taken' = IF m.status = "ok" /\ Sip(m.count) = "take"
                          THEN [sips_taken EXCEPT ![p] = @ + 1] ELSE sips_taken
         /\ last' = IF m.status = "ok"
                    THEN Op("play_card", p, card, value, "ok", count, m.count_played, FALSE)
                    ELSE Op("play_card", p, 0, 0, m.status, count, count, FALSE)
    /\ UNCHANGED <<rules, stock, wastepile_shape, players, gd>>

\* play_card while the wastepile is short of MaxWaste cards
PlayCard(p, card, value) ==
    /\ Len(wastepile) < MaxWaste
    /\ PlayCardCall(p, card, value)

\* pick_card by a player of the game, lines 58-70.  As in cli(), lines
\* 252-253, a player draws to refill the hand after playing, so holds fewer
\* than n_cards cards when drawing.
PickCard(p) ==
    /\ p \in Range(players)
    /\ Len(hand[p]) < n_cards
    /\ \E r \in PickCardOutcomes(stock, wastepile, wastepile_shape, hand[p]) :
          /\ stock' = r.stock
          /\ wastepile' = r.wastepile
          /\ wastepile_shape' = r.shape
          /\ hand' = [hand EXCEPT ![p] = r.hand]
          /\ last' = Op("pick_card", p, 0, 0, r.status, count, count, stock = <<>> /\ AutoShuffle)
    /\ UNCHANGED <<rules, count, direction, players, current_player, counters, gd>>

\* shuffle_cards called by a player of the game, lines 72-77, when the stock
\* has run out (as at its call site, lines 63-65).
ShuffleCards ==
    /\ players # <<>>
    /\ stock = <<>>
    /\ \E r \in ShuffleCardsOutcomes(stock, wastepile, wastepile_shape) :
          /\ stock' = r.stock
          /\ wastepile' = r.wastepile
          /\ wastepile_shape' = r.shape
          /\ last' = Op("shuffle_cards", None, 0, 0, r.status, count, count, TRUE)
    /\ UNCHANGED <<rules, count, direction, players, current_player, hand, counters, gd>>

Next ==
    \/ \E p \in PlayerIds : AddPlayer(p)
    \/ \E p \in PlayerIds : PickCard(p)
    \/ ShuffleCards
    \/ \E p \in PlayerIds, card \in Cards, value \in {-10, 0, 1, 10, 11} : PlayCard(p, card, value)

Spec == Init /\ [][Next]_vars

\* ------------------------------------------- Game built with all arguments
\* Game(stock=..., rules=..., wastepile=..., players=[...]), lines 111-123:
\* k new Player objects (empty hands) are supplied, the stock is the first m
\* cards of the deck, at most one deal's worth, and the wastepile holds the
\* next w cards, w at most one.
\* The constructor stores the lists, takes players[0] as current_player and
\* shuffles the stock; last records the size of the supplied stock.
InitGame ==
    /\ rules \in [play_blind : BOOLEAN, auto_shuffle : BOOLEAN]
    /\ \E k \in 0..MaxPlayers, m \in 0..n_cards, w \in 0..1 :
          /\ players = [i \in 1..k |-> i]
          /\ stock \in Shuffle(SubSeq(Deck, 1, m))
          /\ wastepile = SubSeq(Deck, m + 1, m + w)
          /\ current_player = IF k = 0 THEN None ELSE 1
          /\ last = Op("Game", None, 0, m, "ok", 0, 0, FALSE)
    /\ wastepile_shape = "list"
    /\ count = 0
    /\ direction = 1
    /\ hand = [p \in PlayerIds |-> <<>>]
    /\ sips_taken = [p \in PlayerIds |-> 0]
    /\ sips_given = [p \in PlayerIds |-> 0]
    /\ drinks_taken = [p \in PlayerIds |-> 0]
    /\ drinks_given = [p \in PlayerIds |-> 0]
    /\ gd = NoCall

SpecGame == InitGame /\ [][Next]_vars

\* ------------------------------------------------------- a game of Tens
\* The Tens of TenDecks decks: one for each suit and deck.
TenStock ==
    [j \in 1..(Cardinality(SUITS) * TenDecks) |->
        Index(DeckRanks, TEN) + Len(DeckRanks) * (j - 1)]

\* Game(stock=tens, rules=rules), lines 111-123
InitTens ==
    /\ rules \in [play_blind : BOOLEAN, auto_shuffle : BOOLEAN]
    /\ stock \in Shuffle(TenStock)
    /\ wastepile = <<>>
    /\ wastepile_shape = "list"
    /\ count = 0
    /\ direction = 1
    /\ players = <<>>
    /\ current_player = None
    /\ hand = [p \in PlayerIds |-> <<>>]
    /\ sips_taken = [p \in PlayerIds |-> 0]
    /\ sips_given = [p \in PlayerIds |-> 0]
    /\ drinks_taken = [p \in PlayerIds |-> 0]
    /\ drinks_given = [p \in PlayerIds |-> 0]
    /\ last = Op("init", None, 0, 0, "ok", 0, 0, FALSE)
    /\ gd = NoCall

\* play_card of the first card of the hand: every card of this game is a Ten,
\* so the choice among the hand does not matter.
PlayTen(p, value) ==
    /\ hand[p] # <<>>
    /\ PlayCardCall(p, Head(hand[p]), value)

\* one player joins and plays alone
NextTens ==
    \/ AddPlayer(1)
    \/ \E p \in PlayerIds : PickCard(p)
    \/ ShuffleCards
    \/ \E p \in PlayerIds, value \in {-10, 0, 10} : PlayTen(p, value)

SpecTens == InitTens /\ [][NextTens]_vars

\* ------------------------------------------------------- get_deck on its own
\* No Game has been built: the game's variables hold their empty values.
NoGame ==
    /\ rules = [play_blind |-> FALSE, auto_shuffle |-> FALSE]
    /\ stock = <<>>
    /\ wastepile = <<>>
    /\ wastepile_shape = "list"
    /\ count = 0
    /\ direction = 1
    /\ players = <<>>
    /\ current_player = None
    /\ hand = [p \in PlayerIds |-> <<>>]
    /\ sips_taken = [p \in PlayerIds |-> 0]
    /\ sips_given = [p \in PlayerIds |-> 0]
    /\ drinks_taken = [p \in PlayerIds |-> 0]
    /\ drinks_given = [p \in PlayerIds |-> 0]
    /\ last = Op("init", None, 0, 0, "ok", 0, 0, FALSE)

InitDeck == NoGame /\ gd = NoCall

NextDeck ==
    \/ \E n \in 1..MaxDecks : GetDeckCall(n)
    \/ GetDeckAppend

SpecDeck == InitDeck /\ [][NextDeck]_vars

\* ===================================================================== claims
CountIn(s, x) == Cardinality({i \in 1..Len(s) : s[i] = x})

RECURSIVE CardsInHands(_)
CardsInHands(n) == IF n = 0 THEN 0 ELSE Len(hand[n]) + CardsInHands(n - 1)

RECURSIVE CountInHands(_, _)
CountInHands(n, x) == IF n = 0 THEN 0 ELSE CountIn(hand[n], x) + CountInHands(n - 1, x)

\* The step is a play_card whose move succeeded.
PlayedOk == last'.op = "play_card" /\ last'.status = "ok"

\* C1 (as claimed): card conservation.  In every state the stock, the
\* wastepile and the hands together hold DeckSize cards, and every card of the
\* deck is held exactly once.
C1_CardConservation ==
    /\ Len(stock) + Len(wastepile) + CardsInHands(MaxPlayers) = DeckSize
    /\ \A c \in Cards :
          CountIn(stock, c) + CountIn(wastepile, c) + CountInHands(MaxPlayers, c) = 1

\* C2: turn enforcement.  A play_card (and so a move) by a player who is not
\* current_player ends with WrongPlayer and changes nothing of the game or of
\* any player.
C2_TurnEnforcement ==
    [][\A p \in PlayerIds :
          (last'.op = "play_card" /\ last'.player = p /\ p # current_player)
          => /\ last'.status = "WrongPlayer"
             /\ UNCHANGED <<count, stock, wastepile, wastepile_shape, direction,
                            current_player, players, hand, counters>>]_vars

C2_Witness ==
    /\ last.op = "play_card"
    /\ last.status = "WrongPlayer"
    /\ Len(players) >= 2
    /\ wastepile # <<>>

\* C3 (as claimed): with play_blind enabled a successful move of any card
\* puts the card on the wastepile and leaves count and direction unchanged.
C3_PlayBlindSuppresses ==
    [][(rules.play_blind /\ PlayedOk)
       => /\ SubSeq(wastepile', 1, Len(wastepile) + 1) = Append(wastepile, last'.card)
          /\ count' = count
          /\ direction' = direction]_vars

\* C4: game-over payout.  A move that brings the count to c >= 100 adds one
\* to the mover's drinks_taken, adds (c-100)/10 to the mover's drinks_given
\* when c-100 is a positive multiple of 10 and nothing otherwise, changes no
\* other player's counters and leaves count = 0.
C4_GameOverPayout ==
    [][(PlayedOk /\ last'.count_played >= 100)
       => LET p == last'.player
              c == last'.count_played
              given == IF c = 110 THEN 1
                       ELSE IF c \in 100..109 THEN 0
                       ELSE IF (c - 100) % 10 = 0 THEN (c - 100) \div 10 ELSE 0
          IN  /\ drinks_taken'[p] = drinks_taken[p] + 1
              /\ drinks_given'[p] = drinks_given[p] + given
              /\ \A q \in PlayerIds \ {p} :
                    /\ drinks_taken'[q] = drinks_taken[q]
                    /\ drinks_given'[q] = drinks_given[q]
                    /\ sips_taken'[q] = sips_taken[q]
                    /\ sips_given'[q] = sips_given[q]
              /\ count' = 0]_vars

C4_Witness ==
    /\ last.op = "play_card"
    /\ last.status = "ok"
    /\ last.count_played = 110
    /\ count = 0
    /\ drinks_given[last.player] = 1
    /\ drinks_taken[last.player] >= 1

\* C5: rank effects on count, play_blind disabled.  The count a successful
\* move hands to the game-over test is c+v for an Ace (v in {1,11}), c+r for
\* rank r in 2..9, c+v for a Ten (v in {-10,10}), 96 for a Jack and c for a
\* Queen or King, c being the count before the move.
C5_RankEffects ==
    [][(~rules.play_blind /\ PlayedOk)
       => LET r == Rank(last'.card)
              v == last'.value
              c == count
              played == last'.count_played
          IN  /\ r = 1 => (v \in {1, 11} /\ played = c + v)
              /\ r \in 2..9 => played = c + r
              /\ r = 10 => (v \in {-10, 10} /\ played = c + v)
              /\ r = 11 => played = 96
              /\ r \in {12, 13} => played = c]_vars

C5_Witness ==
    /\ ~rules.play_blind
    /\ last.op = "play_card"
    /\ last.status = "ok"
    /\ Rank(last.card) = 11
    /\ last.count_before \in 1..95
    /\ last.count_played = 96

\* C6: turn advance with wraparound.  A move that does not end the round
\* passes the turn to players[(idx + d) mod n], the modulo non-negative: one
\* below index 0 is index n-1 and one above index n-1 is index 0.
C6_NextPlayerWraps ==
    [][(PlayedOk /\ last'.count_played < 100)
       => LET n == Len(players)
              idx == (CHOOSE i \in 1..n : players[i] = current_player) - 1
              j == idx + direction'
              new == IF j < 0 THEN n - 1 ELSE IF j > n - 1 THEN 0 ELSE j
          IN  /\ n >= 1
              /\ direction' \in {1, -1}
              /\ current_player' = players[new + 1]]_vars

C6_Witness ==
    /\ last.op = "play_card"
    /\ last.status = "ok"
    /\ last.count_played < 100
    /\ Len(players) = 2
    /\ direction = -1
    /\ last.player = players[1]
    /\ current_player = players[2]

\* C7: auto-shuffle recovery.  With auto_shuffle enabled, pick_card on an
\* empty stock and a wastepile of k >= 2 cards succeeds: the k-1 cards under
\* the most recent discard go to the stock, one of them is drawn into the
\* player's hand, the stock ends with k-2 cards and the most recent discard
\* stays in the wastepile.
C7_AutoShuffleRecovery ==
    [][(rules.auto_shuffle /\ last'.op = "pick_card" /\ stock = <<>>
        /\ wastepile_shape = "list" /\ Len(wastepile) >= 2)
       => LET p == last'.player
              k == Len(wastepile)
              moved == SubSeq(wastepile, 1, k - 1)
          IN  /\ last'.status = "ok"
              /\ Len(hand'[p]) = Len(hand[p]) + 1
              /\ SubSeq(hand'[p], 1, Len(hand[p])) = hand[p]
              /\ Len(stock') = k - 2
              /\ \A c \in Cards :
                    CountIn(stock', c) + CountIn(<<hand'[p][Len(hand'[p])]>>, c)
                       = CountIn(moved, c)
              /\ wastepile' = <<wastepile[k]>>
              /\ \A q \in PlayerIds \ {p} : hand'[q] = hand[q]]_vars

C7_Witness ==
    /\ rules.auto_shuffle
    /\ last.op = "pick_card"
    /\ last.shuffled
    /\ last.status = "ok"
    /\ wastepile_shape = "card"

\* C8: draw without auto-shuffle.  With auto_shuffle disabled and the stock
\* empty, pick_card fails with NotEnoughCards and changes nothing; with a
\* non-empty stock it moves exactly the front card of the stock to the end of
\* the drawing player's hand and leaves wastepile, count, direction and
\* current_player unchanged.
C8_DrawWithoutAutoShuffle ==
    [][last'.op = "pick_card"
       => LET p == last'.player IN
          /\ (~rules.auto_shuffle /\ stock = <<>>)
             => /\ last'.status = "NotEnoughCards"
                /\ UNCHANGED <<hand, stock, wastepile, wastepile_shape, count,
                               direction, current_player>>
          /\ stock # <<>>
             => /\ last'.status = "ok"
                /\ stock' = SubSeq(stock, 2, Len(stock))
                /\ hand' = [hand EXCEPT ![p] = hand[p] \o <<stock[1]>>]
                /\ UNCHANGED <<wastepile, wastepile_shape, count, direction,
                               current_player>>]_vars

C8_Witness ==
    /\ ~rules.auto_shuffle
    /\ last.op = "pick_card"
    /\ last.status = "NotEnoughCards"
    /\ stock = <<>>
    /\ Len(wastepile) >= 2

\* C9: add_player atomicity.  add_player on a stock of fewer than 4 cards
\* fails with NotEnoughCards; the player is not in players afterwards, and
\* stock, hands and current_player are unchanged.
C9_AddPlayerAtomic ==
    [][(last'.op = "add_player" /\ Len(stock) < 4)
       => /\ last'.status = "NotEnoughCards"
          /\ \A i \in 1..Len(players') : players'[i] # last'.player
          /\ UNCHANGED <<stock, hand, players, current_player>>]_vars

C9_Witness ==
    /\ last.op = "add_player"
    /\ last.status = "NotEnoughCards"
    /\ Len(stock) = 3
    /\ last.player \notin Range(players)

\* C10: add_player success.  add_player on a stock of at least 4 cards moves
\* the 4 front cards of the stock to the player's hand, appends the player to
\* players, and sets current_player to the player only if it was unset.
C10_AddPlayerSuccess ==
    [][(last'.op = "add_player" /\ Len(stock) >= 4)
       => LET p == last'.player IN
          /\ last'.status = "ok"
          /\ hand'[p] = hand[p] \o SubSeq(stock, 1, 4)
          /\ stock' = SubSeq(stock, 5, Len(stock))
          /\ \A q \in PlayerIds \ {p} : hand'[q] = hand[q]
          /\ players' = players \o <<p>>
          /\ current_player' = IF current_player = None THEN p ELSE current_player]_vars

C10_Witness ==
    /\ last.op = "add_player"
    /\ last.status = "ok"
    /\ Len(players) = 2
    /\ last.player = players[2]
    /\ current_player = players[1]
    /\ wastepile # <<>>

\* C11: deck generation.  For every n >= 1, get_deck(n) returns 52*n cards,
\* each of the 52 (rank, suit) pairs n times, in suit-major and rank-minor
\* order within each copy.
C11_DeckGeneration ==
    (gd.pc = "done" /\ gd.n_decks >= 1)
    => LET n == gd.n_decks
           d == gd.deck
           order == <<"spades", "hearts", "diamonds", "clubs">>
       IN  /\ Len(d) = 52 * n
           /\ \A r \in 1..13 : \A su \in {"hearts", "diamonds", "clubs", "spades"} :
                 Cardinality({i \in 1..Len(d) : d[i].rank = r /\ d[i].suit = su}) = n
           /\ \A i \in 1..Len(d) :
                 /\ d[i].rank = ((i - 1) % 13) + 1
                 /\ d[i].suit = order[(((i - 1) \div 13) % 4) + 1]

C11_Witness ==
    /\ gd.pc = "done"
    /\ gd.n_decks = 2
    /\ Len(gd.deck) = 104

\* C12 (as claimed): the wastepile is a sequence in every state, and when
\* shuffle_cards has run (directly or through pick_card's auto-shuffle) it
\* is a sequence of exactly one element, the most recent discard.
C12_WastepileIsSequence ==
    /\ wastepile_shape = "list"
    /\ (last.shuffled /\ last.status = "ok") => Len(wastepile) = 1

\* C14 (as claimed): the count is never negative.
C14_CountNonNegative == count >= 0

\* The player one step from p in direction d, on the list of players.
Neighbour(p, d) == players[((Index(players, p) - 1 + d) % Len(players)) + 1]

\* C16: round end keeps the turn.  A successful move that brings the count
\* to 100 or more leaves current_player, players and direction unchanged and
\* runs game_over only (count reset, one drink taken); a successful move that
\* leaves the count below 100 passes the turn to the neighbour of the mover
\* in the direction of play and runs next_player only (no drink, no reset).
C16_RoundEndKeepsTurn ==
    [][PlayedOk
       => LET p == last'.player IN
          IF last'.count_played >= 100
          THEN /\ current_player' = current_player
               /\ current_player' = p
               /\ players' = players
               /\ direction' = direction
               /\ count' = 0
               /\ drinks_taken'[p] = drinks_taken[p] + 1
          ELSE /\ current_player' = Neighbour(p, direction')
               /\ players' = players
               /\ count' = last'.count_played
               /\ drinks_taken' = drinks_taken
               /\ drinks_given' = drinks_given]_vars

C16_Witness ==
    /\ last.op = "play_card"
    /\ last.status = "ok"
    /\ last.count_played >= 100
    /\ Len(players) = 2
    /\ current_player = last.player
    /\ count = 0

NonZeroMultiple(c, m) == c # 0 /\ \E k \in -(2 * Limit)..(2 * Limit) : c = k * m

\* C18: sip mechanic.  After a successful play_card, c being the count the
\* move leaves: c a non-zero multiple of 10 adds one to the player's
\* sips_given only; otherwise c a non-zero multiple of 11 adds one to the
\* player's sips_taken only; otherwise neither changes.  No counter of
\* another player changes.
C18_SipMechanic ==
    [][PlayedOk
       => LET p == last'.player
              c == count'
          IN  /\ IF NonZeroMultiple(c, 10)
                 THEN sips_given'[p] = sips_given[p] + 1 /\ sips_taken'[p] = sips_taken[p]
                 ELSE IF NonZeroMultiple(c, 11)
                 THEN sips_taken'[p] = sips_taken[p] + 1 /\ sips_given'[p] = sips_given[p]
                 ELSE sips_given'[p] = sips_given[p] /\ sips_taken'[p] = sips_taken[p]
              /\ \A q \in PlayerIds \ {p} :
                    /\ sips_given'[q] = sips_given[q]
                    /\ sips_taken'[q] = sips_taken[q]
                    /\ drinks_given'[q] = drinks_given[q]
                    /\ drinks_taken'[q] = drinks_taken[q]]_vars

C18_Witness ==
    /\ last.op = "play_card"
    /\ last.status = "ok"
    /\ NonZeroMultiple(count, 11)
    /\ sips_taken[last.player] >= 1
    /\ \E q \in PlayerIds : sips_given[q] >= 1

\* C20: the count is at most 99 in every state; the count a move hands to
\* game_over is at most 110; one move raises drinks_given and drinks_taken
\* of its player by at most one.
C20_CountBound ==
    /\ [](count <= 99)
    /\ [][PlayedOk
          => LET p == last'.player IN
             /\ last'.count_played <= 110
             /\ drinks_given'[p] - drinks_given[p] \in {0, 1}
             /\ drinks_taken'[p] - drinks_taken[p] \in {0, 1}]_vars

C20_Witness ==
    /\ last.op = "play_card"
    /\ last.status = "ok"
    /\ last.count_before = 99
    /\ last.count_played > 100
    /\ count = 0
    /\ drinks_taken[last.player] >= 1

\* C13 (as claimed): with auto_shuffle enabled, pick_card on an empty stock
\* and a wastepile of no or one card ends with NotEnoughCards and moves
\* nothing: stock, wastepile and the hands stay as they are.
C13_NearEmptyReshuffle ==
    [][(/\ last'.op = "pick_card"
        /\ rules.auto_shuffle
        /\ stock = <<>>
        /\ wastepile_shape = "list"
        /\ Len(wastepile) <= 1)
       => /\ last'.status = "NotEnoughCards"
          /\ UNCHANGED <<stock, wastepile, hand>>]_vars

\* C15 (as claimed): a Game built with k >= 1 players and a stock of at
\* least 4k cards has dealt 4 cards to every supplied player: the stock holds
\* 4k fewer cards, players is the supplied list and current_player its first.
C15_ConstructionDeals ==
    (last.op = "Game" /\ Len(players) >= 1 /\ last.value >= n_cards * Len(players))
    => /\ \A p \in Range(players) : Len(hand[p]) = n_cards
       /\ Len(stock) = last.value - n_cards * Len(players)
       /\ players = [i \in 1..Len(players) |-> i]
       /\ current_player = players[1]

\* C19 (as claimed): the count play_card reads after a move is never a
\* non-zero multiple of 110, so the two sip conditions never hold together.
C19_SipBranchesExclusive ==
    ~(NonZeroMultiple(count, 10) /\ NonZeroMultiple(count, 11))

====
